---- MODULE Spec2Model ----
(***************************************************************************)
(* A model of gs2ew: the saturation-time detector                          *)
(* (src/gs2ew/utils/gs2_output.py) and the four plot renderers             *)
(* (src/gs2ew/postprocess/fields.py, transfer.py).                         *)
(*                                                                         *)
(* Arrays are functions on 0..n-1, so indices are those of the Python      *)
(* source.  A field sample is sgn * exp(e/2); its logarithm, the growth    *)
(* rates and the threshold are IEEE values: an exact fraction num/den      *)
(* (den > 0), +inf, -inf or NaN.  Times and windows are integers.          *)
(***************************************************************************)
EXTENDS Integers, Sequences, FiniteSets, TLC

VARIABLES
    present,         \* names of the variables the dataset holds ("x in ds")
    t,               \* ds["t"].values
    phi2,            \* ds["phi2"].values (empty when phi2 is absent)
    pc,              \* position inside detect_saturation_time
    window,          \* detect_saturation_time: window
    threshold,       \* detect_saturation_time: threshold
    logphi2,         \* detect_saturation_time: logphi2
    idx,             \* detect_saturation_time: idx
    growth_rate,     \* detect_saturation_time: growth_rate
    max_growth_idx,  \* detect_saturation_time: max_growth_idx
    result,          \* what detect_saturation_time returned
    err,             \* the exception detect_saturation_time raised
    rpc,             \* position inside the renderer that was called
    renderer,        \* the renderer that was called
    filename,        \* the renderer's filename argument ("None" when not given)
    plotted,         \* the series / active subplots drawn on the figure
    hidden,          \* the subplots hidden with set_visible(False)
    marker,          \* the saturation overlay of the time-trace figure
    avg_window,      \* plot_transfer_by_theta_averaged: window
    tstart_arg,      \* plot_transfer_by_theta_averaged: the tstart argument
    tstart,          \* plot_transfer_by_theta_averaged: tstart
    tend,            \* plot_transfer_by_theta_averaged: tend
    selected,        \* indices of t averaged over, per plotted diagnostic
    saved,           \* the path given to plt.savefig, or NoPath
    returned_path,   \* the path the renderer returned, or NoPath
    rerr             \* the exception that left the renderer

dsVars  == <<present, t, phi2>>
detVars == <<pc, window, threshold, logphi2, idx, growth_rate,
             max_growth_idx, result, err>>
renVars == <<rpc, renderer, filename, plotted, hidden, marker, avg_window,
             tstart_arg, tstart, tend,
             selected, saved, returned_path, rerr>>
vars    == <<dsVars, detVars, renVars>>

(***************************************************************************)
(* Bounds of the model.                                                    *)
(***************************************************************************)
MaxLen == 3
MaxExp == 1

(***************************************************************************)
(* IEEE values.                                                            *)
(***************************************************************************)
Fin(n, d) == [k |-> "fin", num |-> n, den |-> d]
NaN  == [k |-> "nan",  num |-> 0, den |-> 1]
PInf == [k |-> "pinf", num |-> 0, den |-> 1]
NInf == [k |-> "ninf", num |-> 0, den |-> 1]

IsNaN(x) == x.k = "nan"

\* x < y; any comparison with NaN is false.
FLess(x, y) ==
    CASE x.k = "nan" \/ y.k = "nan" -> FALSE
      [] x.k = "pinf"               -> FALSE
      [] y.k = "ninf"               -> FALSE
      [] x.k = "ninf"               -> TRUE
      [] y.k = "pinf"               -> TRUE
      [] OTHER                      -> x.num * y.den < y.num * x.den

\* x - y
FSub(x, y) ==
    CASE x.k = "nan" \/ y.k = "nan"   -> NaN
      [] x.k = "fin" /\ y.k = "fin"   -> Fin(x.num * y.den - y.num * x.den,
                                             x.den * y.den)
      [] x.k = "fin" /\ y.k = "pinf"  -> NInf
      [] x.k = "fin" /\ y.k = "ninf"  -> PInf
      [] x.k = y.k                    -> NaN
      [] OTHER                        -> x

\* x / d for a time difference d (an integer; it may be 0 or negative)
FDivInt(x, d) ==
    CASE x.k = "nan" -> NaN
      [] d = 0 -> (CASE x.k = "fin" /\ x.num = 0 -> NaN
                     [] x.k = "fin" /\ x.num > 0 -> PInf
                     [] x.k = "fin" /\ x.num < 0 -> NInf
                     [] OTHER                    -> x)
      [] d > 0 -> (IF x.k = "fin" THEN Fin(x.num, x.den * d) ELSE x)
      [] OTHER -> (CASE x.k = "fin"  -> Fin(-x.num, x.den * (-d))
                     [] x.k = "pinf" -> NInf
                     [] OTHER        -> PInf)

\* np.log of one sample sgn * exp(e/2)
NpLog(v) ==
    CASE v.sgn > 0 -> Fin(v.e, 2)
      [] v.sgn = 0 -> NInf
      [] OTHER     -> NaN

(***************************************************************************)
(* Arrays and Python slices.                                               *)
(***************************************************************************)
Empty == [i \in {} |-> 0]
ALen(a) == Cardinality(DOMAIN a)
Max2(a, b) == IF a >= b THEN a ELSE b
Min2(a, b) == IF a <= b THEN a ELSE b

\* a slice bound, normalised as Python does for a length n
SliceBound(n, b) == IF b < 0 THEN Max2(n + b, 0) ELSE Min2(b, n)

SliceRange(a, lo, hi) == [j \in 0..(hi - lo - 1) |-> a[lo + j]]
\* a[start:]
SliceFrom(a, start) == SliceRange(a, SliceBound(ALen(a), start), ALen(a))
\* a[:stop]
SliceTo(a, stop) == SliceRange(a, 0, SliceBound(ALen(a), stop))

\* shapes (m,) and (n,) broadcast together
Broadcastable(m, n) == m = n \/ m = 1 \/ n = 1
BroadcastLen(m, n) == IF m = 1 THEN n ELSE m
BGet(a, j) == IF ALen(a) = 1 THEN a[0] ELSE a[j]

NoValue == [kind |-> "unset", v |-> 0]
NotFound == [kind |-> "nan", v |-> 0]
TimeValue(x) == [kind |-> "time", v |-> x]

(***************************************************************************)
(* detect_saturation_time, line by line.                                   *)
(***************************************************************************)
\* int(x / d): the quotient truncated toward zero (d # 0)
TruncDiv(x, d) ==
    LET ax == IF x < 0 THEN -x ELSE x
        ad == IF d < 0 THEN -d ELSE d
    IN  IF (x >= 0) = (d > 0) THEN ax \div ad ELSE -(ax \div ad)

\* line 48: idx = int(window / (t[1] - t[0]))
WindowToIndexOf(tt, w) ==
    IF ALen(tt) < 2 THEN [raises |-> "IndexError", val |-> 0]
    ELSE LET d == tt[1] - tt[0]
         IN  CASE d = 0 /\ w = 0 -> [raises |-> "ValueError", val |-> 0]
               [] d = 0 /\ w # 0 -> [raises |-> "OverflowError", val |-> 0]
               [] OTHER -> [raises |-> "none", val |-> TruncDiv(w, d)]

\* lines 52-53: growth_rate = np.full(len(t), np.nan);
\* growth_rate[idx:] = (logphi2[idx:] - logphi2[:-idx]) / (t[idx:] - t[:-idx])
GrowthRateOf(lg, tt, k) ==
    LET n   == ALen(tt)
        la  == SliceFrom(lg, k)
        lb  == SliceTo(lg, -k)
        ta  == SliceFrom(tt, k)
        tb  == SliceTo(tt, -k)
        nl  == BroadcastLen(ALen(la), ALen(lb))
        nt  == BroadcastLen(ALen(ta), ALen(tb))
        nr  == BroadcastLen(nl, nt)
        rhs == [j \in 0..(nr - 1) |->
                  FDivInt(FSub(BGet(la, j), BGet(lb, j)),
                          BGet(ta, j) - BGet(tb, j))]
        lo  == SliceBound(n, k)
    IN  IF /\ Broadcastable(ALen(la), ALen(lb))
           /\ Broadcastable(ALen(ta), ALen(tb))
           /\ Broadcastable(nl, nt)
           /\ (nr = n - lo \/ nr = 1)
        THEN [raises |-> "none",
              val |-> [i \in 0..(n - 1) |->
                         IF i < lo THEN NaN ELSE BGet(rhs, i - lo)]]
        ELSE [raises |-> "ValueError", val |-> [i \in 0..(n - 1) |-> NaN]]

\* NanArgMax with ties resolved by the last occurrence
NanArgMaxLast(g) ==
    LET r == [i \in DOMAIN g |-> IF IsNaN(g[i]) THEN NInf ELSE g[i]]
    IN  IF \A i \in DOMAIN g : IsNaN(g[i])
        THEN [raises |-> "ValueError", val |-> 0]
        ELSE [raises |-> "none",
              val |-> CHOOSE i \in DOMAIN g :
                        /\ \A j \in DOMAIN g : ~FLess(r[i], r[j])
                        /\ \A j \in DOMAIN g : j > i => FLess(r[j], r[i])]

\* np.nanargmax: NaN is replaced by -inf, an all-NaN array raises, and
\* np.argmax returns the first index of the maximum
NanArgMax(g) ==
    LET r == [i \in DOMAIN g |-> IF IsNaN(g[i]) THEN NInf ELSE g[i]]
    IN  IF \A i \in DOMAIN g : IsNaN(g[i])
        THEN [raises |-> "ValueError", val |-> 0]
        ELSE [raises |-> "none",
              val |-> CHOOSE i \in DOMAIN g :
                        /\ \A j \in DOMAIN g : ~FLess(r[i], r[j])
                        /\ \A j \in DOMAIN g : j < i => FLess(r[j], r[i])]

\* SaturationSearchOf returning the last element, saturated_times[-1]
SaturationSearchLast(tt, g, p, thr) ==
    LET hits == {i \in DOMAIN g : i >= p /\ FLess(g[i], thr)}
    IN  IF hits # {}
        THEN TimeValue(tt[CHOOSE i \in hits : \A j \in hits : i >= j])
        ELSE NotFound

\* SaturationSearchOf comparing with growth_rate <= threshold
SaturationSearchLeq(tt, g, p, thr) ==
    LET hits == {i \in DOMAIN g :
                   i >= p /\ ~IsNaN(g[i]) /\ ~FLess(thr, g[i])}
    IN  IF hits # {}
        THEN TimeValue(tt[CHOOSE i \in hits : \A j \in hits : i <= j])
        ELSE NotFound

\* lines 60-63: t[p:][growth_rate[p:] < threshold], its first element or NaN
SaturationSearchOf(tt, g, p, thr) ==
    LET hits == {i \in DOMAIN g : i >= p /\ FLess(g[i], thr)}
    IN  IF hits # {}
        THEN TimeValue(tt[CHOOSE i \in hits : \A j \in hits : i <= j])
        ELSE NotFound

\* detect_saturation_time(ds, window=w, threshold=th) is entered
Enter(w, th) ==
    /\ pc' = "linearise"
    /\ window' = w
    /\ threshold' = th
    /\ UNCHANGED <<logphi2, idx, growth_rate, max_growth_idx, result, err>>

DetectCall(w, th) ==
    /\ pc = "idle" /\ rpc = "idle"
    /\ Enter(w, th)
    /\ UNCHANGED <<dsVars, renVars>>

Raise(e) ==
    /\ pc' = "raised"
    /\ err' = e

\* lines 43-45
Linearise ==
    /\ pc = "linearise"
    /\ IF "phi2" \in present
       THEN /\ logphi2' = [i \in DOMAIN phi2 |-> NpLog(phi2[i])]
            /\ pc' = "window_to_index"
            /\ err' = err
       ELSE /\ Raise("KeyError")
            /\ logphi2' = logphi2
    /\ UNCHANGED <<window, threshold, idx, growth_rate, max_growth_idx, result>>
    /\ UNCHANGED <<dsVars, renVars>>

\* line 48
WindowToIndex ==
    /\ pc = "window_to_index"
    /\ LET r == WindowToIndexOf(t, window)
       IN  IF r.raises = "none"
           THEN /\ idx' = r.val
                /\ pc' = "growth_rate"
                /\ err' = err
           ELSE /\ Raise(r.raises)
                /\ idx' = idx
    /\ UNCHANGED <<window, threshold, logphi2, growth_rate, max_growth_idx, result>>
    /\ UNCHANGED <<dsVars, renVars>>

\* lines 52-53
GrowthRate ==
    /\ pc = "growth_rate"
    /\ LET r == GrowthRateOf(logphi2, t, idx)
       IN  /\ growth_rate' = r.val
           /\ IF r.raises = "none"
              THEN pc' = "peak" /\ err' = err
              ELSE Raise(r.raises)
    /\ UNCHANGED <<window, threshold, logphi2, idx, max_growth_idx, result>>
    /\ UNCHANGED <<dsVars, renVars>>

\* line 56
PeakLocation ==
    /\ pc = "peak"
    /\ LET r == NanArgMax(growth_rate)
       IN  IF r.raises = "none"
           THEN /\ max_growth_idx' = r.val
                /\ pc' = "search"
                /\ err' = err
           ELSE /\ Raise(r.raises)
                /\ max_growth_idx' = max_growth_idx
    /\ UNCHANGED <<window, threshold, logphi2, idx, growth_rate, result>>
    /\ UNCHANGED <<dsVars, renVars>>

\* lines 60-63
SaturationSearch ==
    /\ pc = "search"
    /\ result' = SaturationSearchOf(t, growth_rate, max_growth_idx, threshold)
    /\ pc' = "returned"
    /\ UNCHANGED <<window, threshold, logphi2, idx, growth_rate, max_growth_idx, err>>
    /\ UNCHANGED <<dsVars, renVars>>

(***************************************************************************)
(* The datasets and calls of the detector that are explored.               *)
(***************************************************************************)
FieldValues ==
    {[sgn |-> -1, e |-> 0], [sgn |-> 0, e |-> 0]}
        \cup {[sgn |-> 1, e |-> x] : x \in 0..MaxExp}
TimeSteps == {-1, 0, 1, 2}
Windows == {-1, 0, 1, 2}
Thresholds == {Fin(0, 1), Fin(1, 10)}

\* the time coordinates of length n that start at 0 and move by the steps
TimeArrays(n, steps) ==
    {a \in [0..(n - 1) -> (-(n - 1))..(2 * (n - 1))] :
        /\ a[0] = 0
        /\ \A i \in 1..(n - 1) : (a[i] - a[i - 1]) \in steps}

DetIdle ==
    /\ pc = "idle"
    /\ window = 0
    /\ threshold = Fin(0, 1)
    /\ logphi2 = Empty
    /\ idx = 0
    /\ growth_rate = Empty
    /\ max_growth_idx = 0
    /\ result = NoValue
    /\ err = "none"

NoPath == <<>>
RenIdle ==
    /\ rpc = "idle"
    /\ renderer = "none"
    /\ filename = "None"
    /\ plotted = {}
    /\ hidden = {}
    /\ marker = NoValue
    /\ avg_window = 0
    /\ tstart_arg = <<>>
    /\ tstart = 0
    /\ tend = 0
    /\ selected = Empty
    /\ saved = NoPath
    /\ returned_path = NoPath
    /\ rerr = "none"

(***************************************************************************)
(* The renderers.                                                          *)
(***************************************************************************)
FieldNames == {"phi2", "apar2", "bpar2"}
ModeNames  == {"phi2_by_mode", "apar2_by_mode", "bpar2_by_mode"}
DiagNames  == {"kinetic_energy_transfer_theta", "entropy_transfer_phi_theta",
               "entropy_transfer_apar_theta", "entropy_transfer_bpar_theta"}
Candidates == FieldNames \cup ModeNames \cup DiagNames

\* [f for f in names if f in ds]
Enabled(names) == {f \in names : f \in present}

\* output_dir / filename, with the renderer's default name for None
OutputPath(fn, default) ==
    <<"outputs", IF fn = "None" THEN default ELSE fn>>

\* A Python float keeps a fixed number of significant bits; the model keeps
\* Precision of them and rounds to nearest, ties to even, as IEEE 754 does.
Precision == 3

RECURSIVE BitLen(_)
BitLen(n) == IF n = 0 THEN 0 ELSE 1 + BitLen(n \div 2)

RECURSIVE Pow2(_)
Pow2(e) == IF e = 0 THEN 1 ELSE 2 * Pow2(e - 1)

RoundNat(n) ==
    IF BitLen(n) <= Precision THEN n
    ELSE LET q    == Pow2(BitLen(n) - Precision)
             lo   == n \div q
             rem  == n % q
             half == q \div 2
             up   == rem > half \/ (rem = half /\ lo % 2 = 1)
         IN  (IF up THEN lo + 1 ELSE lo) * q

\* the float nearest to the real number x
RoundFloat(x) == IF x < 0 THEN -RoundNat(-x) ELSE RoundNat(x)

FloatSub(x, y) == RoundFloat(x - y)
FloatAdd(x, y) == RoundFloat(x + y)

\* ds[diag].sel(t=slice(a, b)): the labels a <= t <= b, both ends included
SelSlice(tt, a, b) == {i \in DOMAIN tt : a <= tt[i] /\ tt[i] <= b}

\* plot_fields_time_traces, lines 41-45: the call of detect_saturation_time
TimeTracesCall(fn, w, th) ==
    /\ rpc = "idle" /\ pc = "idle"
    /\ renderer' = "plot_fields_time_traces"
    /\ filename' = fn
    /\ rpc' = "detect"
    /\ Enter(w, th)
    /\ UNCHANGED <<plotted, hidden, marker, avg_window, tstart_arg, tstart,
                   tend, selected, saved, returned_path, rerr>>
    /\ UNCHANGED dsVars

\* plot_fields_time_traces, line 45: the detector's exception leaves the renderer
TimeTracesAbort ==
    /\ rpc = "detect" /\ pc = "raised"
    /\ rpc' = "raised"
    /\ rerr' = err
    /\ UNCHANGED <<renderer, filename, plotted, hidden, marker, avg_window,
                   tstart_arg, tstart, tend, selected, saved, returned_path>>
    /\ UNCHANGED <<dsVars, detVars>>

\* plot_fields_time_traces, lines 47-83
TimeTracesRender ==
    /\ rpc = "detect" /\ pc = "returned"
    /\ plotted' = Enabled(FieldNames)
    /\ marker' = IF result.kind = "time" THEN result ELSE marker
    /\ saved' = OutputPath(filename, "field_time_traces.png")
    /\ returned_path' = saved'
    /\ rpc' = "returned"
    /\ UNCHANGED <<renderer, filename, hidden, avg_window, tstart_arg, tstart,
                   tend, selected, rerr>>
    /\ UNCHANGED <<dsVars, detVars>>

\* plot_fields_by_mode, lines 107-155
FieldsByMode(fn) ==
    /\ rpc = "idle" /\ pc = "idle"
    /\ renderer' = "plot_fields_by_mode"
    /\ filename' = fn
    /\ plotted' = Enabled(ModeNames)
    /\ hidden' = ModeNames \ Enabled(ModeNames)
    /\ saved' = OutputPath(fn, "fields_by_mode.png")
    /\ returned_path' = saved'
    /\ rpc' = "returned"
    /\ UNCHANGED <<marker, avg_window, tstart_arg, tstart, tend, selected, rerr>>
    /\ UNCHANGED <<dsVars, detVars>>

\* plot_transfer_by_theta, lines 34-81
TransferByTheta(fn) ==
    /\ rpc = "idle" /\ pc = "idle"
    /\ renderer' = "plot_transfer_by_theta"
    /\ filename' = fn
    /\ plotted' = Enabled(DiagNames)
    /\ saved' = OutputPath(fn, "transfer_by_theta.png")
    /\ returned_path' = saved'
    /\ rpc' = "returned"
    /\ UNCHANGED <<hidden, marker, avg_window, tstart_arg, tstart, tend,
                   selected, rerr>>
    /\ UNCHANGED <<dsVars, detVars>>

\* plot_transfer_by_theta_averaged, lines 113-165; ts is <<>> for tstart=None
\* and <<x>> for tstart=x
TransferByThetaAveraged(w, ts, fn) ==
    /\ rpc = "idle" /\ pc = "idle"
    /\ renderer' = "plot_transfer_by_theta_averaged"
    /\ filename' = fn
    /\ avg_window' = w
    /\ tstart_arg' = ts
    /\ tstart' = IF ts = <<>> THEN FloatSub(t[ALen(t) - 1], w) ELSE ts[1]
    /\ tend' = FloatAdd(tstart', w)
    /\ plotted' = Enabled(DiagNames)
    /\ selected' = [d \in Enabled(DiagNames) |-> SelSlice(t, tstart', tend')]
    /\ saved' = OutputPath(fn, "transfer_by_theta_averaged.png")
    /\ returned_path' = saved'
    /\ rpc' = "returned"
    /\ UNCHANGED <<hidden, marker, rerr>>
    /\ UNCHANGED <<dsVars, detVars>>

Init ==
    /\ \E n \in 1..MaxLen :
         /\ t \in TimeArrays(n, TimeSteps)
         /\ \/ present = {"phi2"} /\ phi2 \in [0..(n - 1) -> FieldValues]
            \/ present = {} /\ phi2 = Empty /\ n = 1
    /\ DetIdle
    /\ RenIdle

Next ==
    \/ \E w \in Windows, th \in Thresholds : DetectCall(w, th)
    \/ Linearise
    \/ WindowToIndex
    \/ GrowthRate
    \/ PeakLocation
    \/ SaturationSearch

Spec == Init /\ [][Next]_vars

(***************************************************************************)
(* Series that grow exponentially at a constant rate and then stay flat.   *)
(***************************************************************************)
MaxRampLen == 7
MaxRampStep == 2
RampWindows == {1, 2, 3, 5}
RampThresholds == {Fin(0, 1), Fin(1, 10), Fin(1, 4)}

\* t[i] = t0 + dt * i
UniformTime(n, t0, dt) == [i \in 0..(n - 1) |-> t0 + dt * i]
\* field[i] = exp(step * min(i, m) / 2)
RampField(n, m, step) ==
    [i \in 0..(n - 1) |-> [sgn |-> 1, e |-> step * Min2(i, m)]]

InitRamp ==
    /\ present = {"phi2"}
    /\ \/ \E n \in 2..MaxRampLen, m \in 0..(MaxRampLen - 1),
            step \in 1..MaxRampStep, t0 \in 0..1, dt \in 1..2 :
            /\ m < n
            /\ t = UniformTime(n, t0, dt)
            /\ phi2 = RampField(n, m, step)
       \/ /\ t = UniformTime(50, 0, 1)
          /\ phi2 = RampField(50, 25, 1)
    /\ DetIdle
    /\ RenIdle

NextRamp ==
    \/ \E w \in RampWindows, th \in RampThresholds : DetectCall(w, th)
    \/ Linearise
    \/ WindowToIndex
    \/ GrowthRate
    \/ PeakLocation
    \/ SaturationSearch

SpecRamp == InitRamp /\ [][NextRamp]_vars

(***************************************************************************)
(* The datasets and calls of the renderers that are explored.              *)
(***************************************************************************)
MaxRenderLen == 4
RenderWindows == {1, 2, 3, 5}
Filenames == {"None", "custom.png"}

\* the uniform time coordinates whose samples are floats; they start at 0
\* or where the spacing of the floats becomes 2
RenderTimes ==
    {a \in {UniformTime(n, t0, dt) :
               n \in 2..MaxRenderLen, t0 \in {0, Pow2(Precision)}, dt \in 1..2} :
        \A i \in DOMAIN a : RoundFloat(a[i]) = a[i]}

InitRender ==
    /\ present \in SUBSET Candidates
    /\ t \in RenderTimes
    /\ IF "phi2" \in present
       THEN phi2 \in {RampField(ALen(t), 0, 1), RampField(ALen(t), 1, 1)}
       ELSE phi2 = Empty
    /\ DetIdle
    /\ RenIdle

NextRender ==
    \/ \E fn \in Filenames, w \in RenderWindows :
         TimeTracesCall(fn, w, Fin(1, 10))
    \/ Linearise
    \/ WindowToIndex
    \/ GrowthRate
    \/ PeakLocation
    \/ SaturationSearch
    \/ TimeTracesAbort
    \/ TimeTracesRender
    \/ \E fn \in Filenames : FieldsByMode(fn)
    \/ \E fn \in Filenames : TransferByTheta(fn)
    \/ \E fn \in Filenames, w \in RenderWindows, ts \in {<<>>, <<0>>, <<4>>} :
         TransferByThetaAveraged(w, ts, fn)

SpecRender == InitRender /\ [][NextRender]_vars

(***************************************************************************)
(* The quantities the claims are stated in.                                *)
(***************************************************************************)
N == ALen(t)
Terminal == pc \in {"returned", "raised"}
StrictlyIncreasing(a) == \A i \in DOMAIN a : i > 0 => a[i - 1] < a[i]
MinOf(S) == CHOOSE i \in S : \A j \in S : i <= j

\* k = floor(window / (time[1] - time[0]))
HasK == "phi2" \in present /\ N >= 2 /\ t[1] # t[0]
ClaimK ==
    LET d == t[1] - t[0]
    IN  IF d > 0 THEN window \div d ELSE (-window) \div (-d)

\* g[i] = (ln v[i] - ln v[i-k]) / (t[i] - t[i-k]) for i >= k, missing for i < k
ClaimG(i) ==
    IF i < ClaimK \/ i - ClaimK >= N THEN NaN
    ELSE FDivInt(FSub(NpLog(phi2[i]), NpLog(phi2[i - ClaimK])),
                 t[i] - t[i - ClaimK])

ClaimDefined == {i \in 0..(N - 1) : ~IsNaN(ClaimG(i))}
\* the lowest index attaining the maximum of g
ClaimPeak ==
    MinOf({i \in ClaimDefined :
             \A j \in ClaimDefined : ~FLess(ClaimG(i), ClaimG(j))})
\* the indices from the peak on whose growth rate is below the threshold
ClaimHits ==
    {j \in 0..(N - 1) : j >= ClaimPeak /\ FLess(ClaimG(j), threshold)}

\* a series and a call that meet the detector's preconditions
AllPositive == \A i \in 0..(N - 1) : phi2[i].sgn = 1
ValidSeries == HasK /\ StrictlyIncreasing(t) /\ AllPositive
ValidCall == window > 0 /\ FLess(Fin(0, 1), threshold)

\* x >= y
FGeq(x, y) == ~IsNaN(x) /\ ~IsNaN(y) /\ ~FLess(x, y)

(***************************************************************************)
(* C1.  With 1 <= k < N and some defined growth rate, the detector returns *)
(* time[j] for the smallest j >= i_peak with g[j] < threshold, i_peak the  *)
(* lowest index of the maximum of g, and returns NaN exactly when there is *)
(* no such j; an index before the peak is never the one returned.          *)
(***************************************************************************)
C1_Pre == HasK /\ 1 <= ClaimK /\ ClaimK < N /\ ClaimDefined # {}

\* C1: when the call has ended on such an input, it returned, and the value
\* is time[j] for the first j >= i_peak below threshold, or NaN if none is
C1_FirstBelowThresholdAfterPeak ==
    (Terminal /\ C1_Pre) =>
        /\ pc = "returned"
        /\ IF ClaimHits # {}
           THEN result = TimeValue(t[MinOf(ClaimHits)])
           ELSE result = NotFound

\* C1 witness: a time is returned although an earlier index, before the
\* peak, is below the threshold
C1_Witness ==
    /\ pc = "returned" /\ C1_Pre
    /\ StrictlyIncreasing(t)
    /\ result.kind = "time"
    /\ \E i \in 0..(N - 1) : i < ClaimPeak /\ FLess(ClaimG(i), threshold)

(***************************************************************************)
(* C2.  When k >= N the detector returns NaN and does not raise.           *)
(***************************************************************************)
\* C2: a call with positive window and threshold on a series of positive
\* samples at strictly increasing times, with k >= N, ends by returning NaN
C2_WindowLongerThanSeriesNotFound ==
    (Terminal /\ ValidSeries /\ ValidCall /\ ClaimK >= N) =>
        (pc = "returned" /\ result = NotFound)

(***************************************************************************)
(* C3.  A call with window <= 0, threshold <= 0 or a time coordinate that  *)
(* is not strictly increasing ends in an error and returns neither a time  *)
(* nor NaN.  (The time and field arrays of one dataset always have the     *)
(* same length.)                                                           *)
(***************************************************************************)
InvalidArgument ==
    \/ window <= 0
    \/ ~FLess(Fin(0, 1), threshold)
    \/ ~StrictlyIncreasing(t)

\* C3: a call with such arguments on a series of positive samples ends by
\* raising, and returns nothing
C3_InvalidArgumentRejected ==
    (Terminal /\ "phi2" \in present /\ AllPositive /\ InvalidArgument) =>
        (pc = "raised" /\ result = NoValue)

(***************************************************************************)
(* C4.  A returned saturation time is an element of time and is            *)
(* >= time[i_peak], i_peak the index of the maximum of the growth rates.   *)
(***************************************************************************)
\* C4: for positive samples, window and threshold and 1 <= k < N, a returned
\* time is some time[i] and is >= time[i_peak]
C4_ResultIsSampleAtOrAfterPeak ==
    (/\ pc = "returned" /\ result.kind = "time"
     /\ HasK /\ AllPositive /\ ValidCall /\ C1_Pre) =>
        /\ \E i \in 0..(N - 1) : t[i] = result.v
        /\ result.v >= t[ClaimPeak]

(***************************************************************************)
(* C5.  A uniformly sampled series growing at a constant rate r >          *)
(* threshold up to index m and flat afterwards.                            *)
(***************************************************************************)
\* phi2 grows by exp(step/2) per sample up to index m and is flat afterwards
IsRamp(m, step) ==
    /\ HasK
    /\ \A i \in 1..(N - 1) : t[i] - t[i - 1] = t[1] - t[0]
    /\ t[1] > t[0]
    /\ \A i \in 0..(N - 1) :
         phi2[i].sgn = 1 /\ phi2[i].e = phi2[0].e + step * Min2(i, m)
\* the rate r of such a series
RampRate(step) == Fin(step, 2 * (t[1] - t[0]))

\* C5 as claimed, for a valid call (threshold > 0, 1 <= k < N) and a flat
\* tail of at least one sample: the returned time lies in
\* [time[m], time[m] + window]
C5_TransitionWithinWindow ==
    \A m \in 1..(N - 2), step \in 1..MaxRampStep :
        (/\ Terminal /\ IsRamp(m, step) /\ FLess(threshold, RampRate(step))
         /\ ValidCall /\ 1 <= ClaimK /\ ClaimK < N) =>
            /\ pc = "returned"
            /\ result.kind = "time"
            /\ t[m] <= result.v /\ result.v <= t[m] + window

\* C5 as amended: the same, provided the flat tail reaches index m + k
C5_TransitionWithinWindowLongTail ==
    \A m \in 0..(N - 1), step \in 1..MaxRampStep :
        (/\ Terminal /\ IsRamp(m, step) /\ FLess(threshold, RampRate(step))
         /\ ValidCall /\ 1 <= ClaimK /\ m + ClaimK <= N - 1) =>
            /\ pc = "returned"
            /\ result.kind = "time"
            /\ t[m] <= result.v /\ result.v <= t[m] + window

\* C5 witness, the end-to-end scenario: time = 0..49, field = exp(0.5 i) up to i = 25,
\* window 5, threshold 0.1; the detector returned a time in [25, 30]
C5_Witness ==
    /\ pc = "returned"
    /\ N = 50 /\ IsRamp(25, 1)
    /\ window = 5 /\ threshold = Fin(1, 10)
    /\ result.kind = "time" /\ 25 <= result.v /\ result.v <= 30

(***************************************************************************)
(* C6.  A monotonically growing series whose growth rate is >= threshold   *)
(* at every index i >= k makes the detector return NaN without raising.    *)
(***************************************************************************)
C6_Pre ==
    /\ HasK /\ 1 <= ClaimK /\ ClaimK < N
    /\ \A i \in 0..(N - 1) : phi2[i].sgn = 1
    /\ \A i \in 1..(N - 1) : phi2[i - 1].e <= phi2[i].e
    /\ \A i \in 0..(N - 1) : i >= ClaimK => FGeq(ClaimG(i), threshold)

\* C6: on a growing series of positive samples with 1 <= k < N whose growth
\* rate is >= threshold at every index i >= k, the call ends by returning NaN
C6_NeverBelowThresholdNotFound ==
    (Terminal /\ C6_Pre) => (pc = "returned" /\ result = NotFound)

\* C6 witness: a series that does grow, under a positive threshold
C6_Witness ==
    /\ pc = "returned" /\ C6_Pre
    /\ StrictlyIncreasing(t)
    /\ FLess(Fin(0, 1), threshold)
    /\ phi2[0].e < phi2[N - 1].e
    /\ result = NotFound

(***************************************************************************)
(* C7.  The growth rates computed from a zero or negative sample, g[p] and *)
(* g[p+k], are missing: never the peak, never below the threshold, and the *)
(* detector does not raise.                                                *)
(***************************************************************************)
\* C7: for strictly increasing times, positive window and threshold,
\* 1 <= k < N and some defined growth rate, the call returns, and g[p] and
\* g[p+k] of every sample p <= 0 are NaN, not the peak, not below threshold
C7_NonPositiveSampleIsMissing ==
    (/\ Terminal /\ HasK /\ StrictlyIncreasing(t) /\ ValidCall
     /\ 1 <= ClaimK /\ ClaimK < N /\ ClaimDefined # {}) =>
        /\ pc = "returned"
        /\ \A p \in 0..(N - 1), q \in 0..(N - 1) :
             (phi2[p].sgn <= 0 /\ q >= ClaimK /\ q \in {p, p + ClaimK}) =>
                 /\ IsNaN(growth_rate[q])
                 /\ max_growth_idx # q
                 /\ ~FLess(growth_rate[q], threshold)

(***************************************************************************)
(* C8.  For every subset of the candidate variables that the dataset       *)
(* holds, every renderer completes: no absent variable is an error, the    *)
(* series of the variables present (and only those) are drawn, the image   *)
(* is written and its path returned.                                       *)
(***************************************************************************)
CandidatesOf(r) ==
    CASE r = "plot_fields_time_traces" -> FieldNames
      [] r = "plot_fields_by_mode"     -> ModeNames
      [] OTHER                         -> DiagNames

\* C8: a renderer call that has ended did not raise for an absent variable
\* (a raise needs phi2 present and is no KeyError); one that returned drew
\* exactly the candidates present, wrote the image and returned its path
C8_AbsentVariableIsNeverAnError ==
    (rpc \in {"returned", "raised"}) =>
        /\ rpc = "raised" => ("phi2" \in present /\ rerr # "KeyError")
        /\ rpc = "returned" =>
             /\ plotted = CandidatesOf(renderer) \cap present
             /\ saved # NoPath /\ returned_path = saved

(***************************************************************************)
(* C9.  With tstart = None the averaged renderer averages every plotted    *)
(* diagnostic over exactly the samples with t_last - window <= t <= t_last.*)
(***************************************************************************)
\* C9: after plot_transfer_by_theta_averaged(ds, window, tstart=None) the
\* samples averaged for each diagnostic are those of [t_last - window, t_last]
C9_AveragesLastWindow ==
    (/\ rpc = "returned"
     /\ renderer = "plot_transfer_by_theta_averaged"
     /\ tstart_arg = <<>>) =>
        \A d \in DOMAIN selected :
            selected[d] = {i \in 0..(N - 1) :
                             /\ t[N - 1] - avg_window <= t[i]
                             /\ t[i] <= t[N - 1]}

(***************************************************************************)
(* C10.  A positive window smaller than the first sampling interval        *)
(* (k = 0) still gives a time or NaN, and no exception.                    *)
(***************************************************************************)
\* C10: a call with 0 < window < time[1] - time[0] and positive threshold on
\* a series of positive samples at strictly increasing times ends by
\* returning a time or NaN
C10_WindowBelowSamplingIntervalReturns ==
    (/\ Terminal /\ ValidSeries /\ ValidCall
     /\ window < t[1] - t[0]) =>
        (pc = "returned" /\ result.kind \in {"time", "nan"})

====
